---- MODULE Spec2Model ----
(***************************************************************************)
(* Model of the investigation pipeline of OSINTFramework                   *)
(* (src/core/main.py): investigate, _cross_platform_search,                *)
(* _extract_identifiers, _find_correlations, and of the collaborators it   *)
(* calls (the collectors of self.modules, AIAnalyzer, the visualizer).     *)
(*                                                                         *)
(* An investigation is one call of investigate; several calls may be in    *)
(* progress on the same framework instance (src/web/app.py serves each     *)
(* POST /investigate with framework.investigate on the shared instance).   *)
(* The steps of one call are the statements between two awaits.            *)
(***************************************************************************)
EXTENDS Integers, Sequences, FiniteSets, TLC

(* ---------------------------- bounds ----------------------------------- *)

\* number of investigate calls of one behaviour
MaxInv == 2
\* last instant of the wall clock, in ticks
MaxClock == 2
\* clock ticks in one second: datetime.now() is finer than the second
TicksPerSecond == 2
\* largest number of risk factors _identify_risk_factors returns
MaxRiskFactors == 1
\* largest number of values in one list of the extraction output (SpecFanout)
MaxValues == 6
\* largest number of collector calls that raise during one fan-out
MaxFailures == 1

Inv == 1..MaxInv

(* ------------------------- program constants --------------------------- *)

\* self.modules.items(), in insertion order
ModuleOrder == <<"phone", "email", "instagram", "twitter", "telegram", "shodan", "darkweb", "bitcoin">>

ModuleNames == {ModuleOrder[n] : n \in 1..Len(ModuleOrder)}

\* identifiers.items(), in insertion order
KindOrder == <<"usernames", "emails", "phones", "domains">>

\* values[:5]
FanoutCap == 5

\* the target types a caller passes: registered collectors and, as the
\* command line allows, kinds without a collector ('domain', 'ip')
TargetTypes == {"twitter", "domain"}

\* the value a caller passes with each target type
TargetValueOf(tt) == IF tt = "twitter" THEN "foo" ELSE "b.com"

Depths == 1..3

\* config_manager.py:89-90, the defaults of the 'investigation' section
max_concurrent_requests == 10
request_timeout == 30

(* ------------------------------ dicts ---------------------------------- *)

EmptyDict == [k \in {} |-> {}]

Put(d, k, v) == [x \in (DOMAIN d) \cup {k} |-> IF x = k THEN v ELSE d[x]]

(* --------------------------- collaborators ----------------------------- *)

\* what a collector's investigate hands back: the identifiers its output
\* contains (a set of <<kind, value>>), possibly none
CollectorResults(value) ==
  { [found |-> {}],
    [found |-> {<<"usernames", "foo">>}] }

\* a collector call returns or raises: no investigate of the collectors
\* catches the exceptions of its helpers
CollectorOutcomes == {"ok", "raise"}

\* the result of a Tier-2 call module.investigate(value, depth=1)
CrossResult(module, value) == [module |-> module, value |-> value, depth |-> 1]

AnalyzeOutcomes == {"ok", "raise"}

RiskFactorCounts == 0..MaxRiskFactors

VisualizerOutcomes == {"ok", "raise"}

\* the identifier kinds a collector's investigate takes, by its parameter:
\* username (instagram.py:21, twitter.py:23, telegram.py:21), phone_number
\* (phone_intel.py:14), search_terms (darkweb.py:26), wallet_address
\* (bitcoin.py:15); EmailIntel and ShodanIntel by what they look up
SupportsTarget(module, kind) ==
  CASE module \in {"instagram", "twitter", "telegram"} -> kind = "usernames"
    [] module = "phone" -> kind = "phones"
    [] module = "email" -> kind = "emails"
    [] module = "shodan" -> kind = "domains"
    [] module = "darkweb" -> TRUE
    [] OTHER -> FALSE

(* ------------------------ pure functions of main.py -------------------- *)

\* _extract_identifiers: four empty lists, whatever the results
_extract_identifiers(res) ==
  [k \in {KindOrder[n] : n \in 1..Len(KindOrder)} |-> <<>>]

\* correlations keyed on the entry the dict yields first
_first_correlation(data) ==
  IF DOMAIN data = {} THEN EmptyDict
  ELSE Put(EmptyDict, "first", data[CHOOSE k \in DOMAIN data : TRUE])

\* _find_correlations: the empty dict, whatever the data
_find_correlations(data) == EmptyDict

\* f"{module_name}_{value}"
CrossKey(module, value) == module \o "_" \o value

\* the slice without its bound: values[:]
SelectedAll(values) == values

\* values[:5]
Selected(values) == SubSeq(values, 1, IF Len(values) < FanoutCap THEN Len(values) ELSE FanoutCap)

\* the calls of the three nested loops of _cross_platform_search, in order:
\* for each kind, for each of values[:5], for each module other than target_type
RECURSIVE CallsOfValue(_, _, _, _)
CallsOfValue(kind, value, tt, n) ==
  IF n > Len(ModuleOrder) THEN <<>>
  ELSE (IF ModuleOrder[n] # tt
          THEN <<[kind |-> kind, module |-> ModuleOrder[n], value |-> value, depth |-> 1]>>
          ELSE <<>>)
       \o CallsOfValue(kind, value, tt, n + 1)

RECURSIVE CallsOfValues(_, _, _, _)
CallsOfValues(kind, values, tt, n) ==
  IF n > Len(values) THEN <<>>
  ELSE CallsOfValue(kind, values[n], tt, 1) \o CallsOfValues(kind, values, tt, n + 1)

RECURSIVE CallsOfKinds(_, _, _)
CallsOfKinds(ids, tt, n) ==
  IF n > Len(KindOrder) THEN <<>>
  ELSE CallsOfValues(KindOrder[n], Selected(ids[KindOrder[n]]), tt, 1)
       \o CallsOfKinds(ids, tt, n + 1)

ScheduledCalls(ids, tt) == CallsOfKinds(ids, tt, 1)

(* ------------- extraction outputs the fan-out is run on --------------- *)

ValuePool == <<"foo", "v2", "v3", "v4", "v5", "v6", "v7", "v8">>

Ids(u, e, p, d) == [usernames |-> u, emails |-> e, phones |-> p, domains |-> d]

\* lists of 0..MaxValues distinct values, and a list that repeats a value
UsernameLists == {SubSeq(ValuePool, 1, n) : n \in 0..MaxValues} \cup {<<"foo", "foo">>}

\* no domain, one domain, a domain equal to a username
DomainLists == {<<>>, <<"b.com">>, <<"foo">>}

ExtractionOutputs ==
  {Ids(u, <<>>, <<>>, d) : u \in UsernameLists, d \in DomainLists}
  \cup {Ids(<<"foo">>, <<"a@b.com">>, <<"+33612345678">>, <<"b.com">>)}

(* ------------------------------ state ---------------------------------- *)

VARIABLES
  now,                \* datetime.now(), in ticks
  pc,                 \* position of each investigate call
  target_type, target_value, depth,   \* arguments of each call
  investigation_id,   \* local investigation_id of each call
  results,            \* local results of each call
  identifiers,        \* local identifiers of _cross_platform_search
  schedule,           \* the iterations the loops of lines 99-102 go through
  cross_results,      \* local cross_results of _cross_platform_search
  tier1_calls,        \* the Tier-1 collector calls made so far, in order
  calls,              \* the Tier-2 collector calls made so far, in order
  failed,             \* the positions in calls of the Tier-2 calls that raised
  executed,           \* the steps each call has executed
  returned,           \* what each call returned to its caller
  warnings,           \* module names of the logger.warning messages
  investigation_data, \* self.investigation_data
  cancelled,          \* per call: whether its task was cancelled, and the work done by then
  modules,            \* self.modules of the framework (main.py:33)
  fs,                 \* the plugin directories on disk and their files
  plugins,            \* PluginSystem.plugins
  plugins_dir,        \* PluginSystem.plugins_dir
  sys_modules,        \* the plugin names entered in sys.modules
  loads,              \* number of load_plugins / reload_plugins calls so far
  first_reg,          \* per name, the instance registered first since the last clear
  last_op,            \* the last operation of the plugin system
  plugins_before,     \* PluginSystem.plugins when the last operation began
  last_scanned,       \* the files the last operation went through at lines 30-50, in order
  load_dir,           \* the directory the most recent load_plugins call scanned
  availability,       \* _MODULE_AVAILABILITY of modules/__init__.py
  mgr_pc,             \* per ModuleManager: not built, in __init__, built, or raised
  mgr_modules,        \* per ModuleManager: self.modules
  mgr_outcomes,       \* per ModuleManager: how each _try_initialize_module went
  corr_input,         \* a dict of collector outputs handed to _find_correlations
  corr_calls,         \* the calls of _find_correlations on it: entry order and output
  ext_given,          \* a results dict, as it was handed to _extract_identifiers
  ext_input,          \* that results dict, as it is now
  ext_calls,          \* the outputs of the calls of _extract_identifiers on it
  settings_file,      \* config/settings.yaml on disk
  settings,           \* ConfigManager.settings
  cfg_loaded,         \* load_all_configs has run
  last_setting        \* the last get_setting call: its key and what it returned

frameworkVars ==
  <<now, pc, target_type, target_value, depth, investigation_id, results,
    identifiers, schedule, cross_results, tier1_calls, calls, failed, executed,
    returned, warnings, investigation_data, modules, cancelled>>

pluginVars ==
  <<fs, plugins, plugins_dir, sys_modules, loads, first_reg, last_op, plugins_before,
    last_scanned, load_dir>>

managerVars == <<availability, mgr_pc, mgr_modules, mgr_outcomes>>

pureVars == <<corr_input, corr_calls, ext_given, ext_input, ext_calls>>

configVars == <<settings_file, settings, cfg_loaded, last_setting>>

\* what an investigate call leaves alone
otherVars == <<modules, cancelled, pluginVars, managerVars, pureVars, configVars>>

vars == <<frameworkVars, pluginVars, managerVars, pureVars, configVars>>

NoResults == [none |-> TRUE]

\* the task of the call has not been cancelled
NotCancelled == [calls |-> -1]

NoIdentifiers == [k \in {KindOrder[n] : n \in 1..Len(KindOrder)} |-> <<>>]

FrameworkInit ==
  /\ now = 0
  /\ cancelled = [i \in Inv |-> NotCancelled]
  /\ pc = [i \in Inv |-> "idle"]
  /\ target_type = [i \in Inv |-> "none"]
  /\ target_value = [i \in Inv |-> "none"]
  /\ depth = [i \in Inv |-> 0]
  /\ investigation_id = [i \in Inv |-> -1]
  /\ results = [i \in Inv |-> NoResults]
  /\ identifiers = [i \in Inv |-> NoIdentifiers]
  /\ schedule = [i \in Inv |-> <<>>]
  /\ cross_results = [i \in Inv |-> EmptyDict]
  /\ tier1_calls = [i \in Inv |-> <<>>]
  /\ calls = [i \in Inv |-> <<>>]
  /\ failed = [i \in Inv |-> {}]
  /\ executed = [i \in Inv |-> {}]
  /\ returned = [i \in Inv |-> NoResults]
  /\ warnings = {}
  /\ investigation_data = EmptyDict

(* ------------------- plugin system: the files on disk ------------------- *)

\* number of load_plugins / reload_plugins calls in one behaviour
MaxLoads == 3

\* plugin_system.py:14
DefaultPluginsDir == "plugins/custom_plugins"

\* the directories a caller passes to load_plugins
PluginDirs == {DefaultPluginsDir, "plugins/extra"}

\* load_plugins() called without a directory
NoDir == "None"

\* file names are the sequences of their characters
PluginFileNames == {<<"a", ".", "p", "y">>, <<"b", ".", "p", "y">>}

\* the file of each directory the scan passes over
OtherFileNames(dir) ==
  IF dir = DefaultPluginsDir THEN {<<"_", "a", ".", "p", "y">>}
  ELSE {<<"a", ".", "t", "x", "t">>}

\* str.endswith and str.startswith
EndsWith(f, suffix) ==
  /\ Len(f) >= Len(suffix)
  /\ SubSeq(f, Len(f) - Len(suffix) + 1, Len(f)) = suffix

StartsWith(f, prefix) ==
  /\ Len(f) >= Len(prefix)
  /\ SubSeq(f, 1, Len(prefix)) = prefix

\* line 29
IsPluginFile(f) == EndsWith(f, <<".", "p", "y">>) /\ ~StartsWith(f, <<"_">>)

\* line 30: filename[:-3]
PluginName(f) == SubSeq(f, 1, Len(f) - 3)

\* what a plugin file holds:
\*   ok                a Plugin class like the template of lines 101-129
\*   exec_raises       executing the file raises
\*   no_plugin_class   the file defines no Plugin
\*   ctor_raises       Plugin(config) raises
\*   no_methods        a Plugin class without investigate and get_capabilities
\*   bad_capabilities  get_capabilities names target types investigate does
\*                     not handle
FileKinds == {"ok", "exec_raises", "no_plugin_class", "ctor_raises",
              "no_methods", "bad_capabilities"}

\* line 39: spec.loader.exec_module(module) raises
ExecRaises(kind) == kind = "exec_raises"

\* line 42: hasattr(module, 'Plugin')
HasPluginClass(kind) == kind \notin {"exec_raises", "no_plugin_class"}

\* line 43: module.Plugin(self.config) raises
CtorRaises(kind) == kind = "ctor_raises"

\* the template's contract: investigate and get_capabilities are there and
\* agree
SatisfiesContract(kind) == kind = "ok"

\* the contents a directory can have
DirContents(dir) ==
  UNION { { [f \in S \cup OtherFileNames(dir) |-> IF f \in S THEN k[f] ELSE "ok"] :
              k \in [S -> FileKinds] } : S \in SUBSET PluginFileNames }

Absent == [exists |-> FALSE, files |-> EmptyDict]

Present(files) == [exists |-> TRUE, files |-> files]

FileSystems ==
  {f \in [PluginDirs -> {Absent} \cup UNION {{Present(c) : c \in DirContents(d)} : d \in PluginDirs}] :
     \A d \in PluginDirs : f[d] = Absent \/ f[d].files \in DirContents(d)}

\* os.listdir: the names of a directory, in arbitrary order
Listings(files) ==
  LET S == DOMAIN files
      n == Cardinality(S)
  IN {l \in [1..n -> S] : \A a, b \in 1..n : a # b => l[a] # l[b]}

\* main.py:42-53: the built-in collectors
BuiltinModules == [m \in ModuleNames |-> [builtin |-> m]]

\* PluginSystem.__init__, lines 10-14
PluginSystemInit ==
  /\ plugins = EmptyDict
  /\ plugins_dir = DefaultPluginsDir
  /\ sys_modules = {}
  /\ loads = 0
  /\ first_reg = EmptyDict
  /\ last_op = "none"
  /\ plugins_before = EmptyDict
  /\ last_scanned = <<>>
  /\ load_dir = DefaultPluginsDir

(* ------------------ module manager: modules/__init__.py ----------------- *)

\* number of ModuleManager objects built in the process
MaxManagers == 2

\* number of modules whose initialization fails in one behaviour
MaxBadModules == 1

Managers == 1..MaxManagers

\* lines 70-91: (module_path, class_name), the path as its dotted components
modules_to_init == <<
  [path |-> <<"phone_intel">>,                   class |-> "PhoneIntel"],
  [path |-> <<"email_intel">>,                   class |-> "EmailIntel"],
  [path |-> <<"social", "instagram">>,           class |-> "InstagramIntel"],
  [path |-> <<"social", "twitter">>,             class |-> "TwitterIntel"],
  [path |-> <<"social", "telegram">>,            class |-> "TelegramIntel"],
  [path |-> <<"social", "facebook">>,            class |-> "FacebookIntel"],
  [path |-> <<"social", "linkedin">>,            class |-> "LinkedInIntel"],
  [path |-> <<"web", "domain_intel">>,           class |-> "DomainIntel"],
  [path |-> <<"web", "shodan_intel">>,           class |-> "ShodanIntel"],
  [path |-> <<"web", "wayback">>,                class |-> "WaybackMachine"],
  [path |-> <<"web", "darkweb">>,                class |-> "DarkWebIntel"],
  [path |-> <<"blockchain", "bitcoin">>,         class |-> "BitcoinIntel"],
  [path |-> <<"blockchain", "ethereum">>,        class |-> "EthereumIntel"],
  [path |-> <<"blockchain", "crypto_tracker">>,  class |-> "CryptoTracker"],
  [path |-> <<"ai", "analyzer">>,                class |-> "AIAnalyzer"],
  [path |-> <<"ai", "image_recognition">>,       class |-> "ImageRecognition"],
  [path |-> <<"ai", "behavioral">>,              class |-> "BehavioralAnalyzer"],
  [path |-> <<"geolocation", "wifi_analyzer">>,  class |-> "WifiAnalyzer"],
  [path |-> <<"geolocation", "geotag">>,         class |-> "GeotagAnalyzer"],
  [path |-> <<"geolocation", "cell_tower">>,     class |-> "CellTowerAnalyzer"] >>

\* line 109: module_path.split('.')[-1]
ModuleKey(path) == path[Len(path)]

\* how one _try_initialize_module goes: the import of line 107 raises
\* ImportError, the getattr of line 108 raises AttributeError, the
\* constructor of lines 112-115 raises, or none does
InitOutcomes == {"ok", "import_error", "attribute_error", "ctor_error"}

\* module_key is bound at line 109, after the import and the getattr
KeyBound(outcome) == outcome \in {"ok", "ctor_error"}

\* ModuleManager not built yet; the module globals of lines 42-43
ManagerInit ==
  /\ availability = EmptyDict
  /\ mgr_pc = [m \in Managers |-> "none"]
  /\ mgr_modules = [m \in Managers |-> EmptyDict]
  /\ mgr_outcomes = [m \in Managers |-> <<>>]

(* ---------- inputs of _find_correlations and _extract_identifiers -------- *)

\* number of calls of each of the two functions on one input
MaxPureCalls == 2

\* the outputs of a collector: the identifiers it found, as <<kind, value>>
CollectorOutputs ==
  { [found |-> {}],
    [found |-> {<<"usernames", "foo">>}],
    [found |-> {<<"usernames", "foo">>, <<"emails", "a@b.com">>}] }

\* the keys of lines 75 and 105
ResultModules == {"twitter", "instagram"}
CrossKeys == {CrossKey("instagram", "foo"), CrossKey("telegram", "foo")}

\* the dicts with keys and values among S and T
Dicts(S, T) == UNION {[K -> T] : K \in SUBSET S}

\* cross_results at line 110
CorrelationInputs == Dicts(CrossKeys, CollectorOutputs)

\* results at line 97, after Tier 1 or merged from several collectors
ExtractionInputs ==
  { [investigation_id |-> 0,
     target |-> [type |-> "twitter", value |-> "foo"],
     modules |-> mods,
     correlations |-> EmptyDict,
     risk_assessment |-> EmptyDict] : mods \in Dicts(ResultModules, CollectorOutputs) }

\* the orders in which the keys of a dict can have been inserted
KeyOrders(d) == Listings(d)

\* a dict as Python iterates it: its items, in insertion order
Items(d, order) ==
  [n \in 1..Len(order) |-> [key |-> order[n], value |-> d[order[n]]]]

(* ------------------ configuration: core/config_manager.py --------------- *)

\* the values of a YAML document or of a settings dict: a mapping, a
\* scalar, or None
Mapping(d) == [tag |-> "dict", d |-> d]
Scalar(v) == [tag |-> "scalar", v |-> v]
None == [tag |-> "none"]

\* lines 78-126, of which the sections 'investigation' and 'monitoring'
DefaultSettings ==
  Mapping([investigation |-> Mapping([default_depth |-> Scalar(2),
                                      max_concurrent_requests |-> Scalar(max_concurrent_requests),
                                      request_timeout |-> Scalar(request_timeout),
                                      rate_limit_delay |-> Scalar(1)]),
           monitoring |-> Mapping([check_interval |-> Scalar(3600)])])

\* line 32: {**a, **b}, the top-level keys of b over those of a
Merge(a, b) ==
  Mapping([k \in DOMAIN a.d \cup DOMAIN b.d |->
             IF k \in DOMAIN b.d THEN b.d[k] ELSE a.d[k]])

\* what config/settings.yaml can be: not there, not parseable, an empty
\* document, or a mapping of sections
NoFile == [tag |-> "missing"]
Malformed == [tag |-> "malformed"]

\* the values a settings.yaml gives to a key of the 'investigation' section
SettingValues == {Scalar(5)}

InvestigationKeys == {"default_depth", "max_concurrent_requests", "request_timeout"}

InvestigationSections ==
  {Scalar(0)} \cup {Mapping(d) : d \in Dicts(InvestigationKeys, SettingValues)}

MonitoringSections == {Mapping([check_interval |-> Scalar(60)])}

SettingsDocuments ==
  {None}
  \cup {Mapping(d) : d \in Dicts({"monitoring"}, MonitoringSections)}
  \cup UNION {{Mapping(Put(d, "investigation", sec)) : sec \in InvestigationSections} :
               d \in Dicts({"monitoring"}, MonitoringSections)}

SettingsFiles == {NoFile, Malformed} \cup SettingsDocuments

\* lines 21-35
_load_settings(file) ==
  IF file = NoFile THEN DefaultSettings
  ELSE IF file = Malformed THEN DefaultSettings
  ELSE Merge(DefaultSettings, IF file = None THEN Mapping(EmptyDict) ELSE file)

\* lines 130-138: key is the dotted key as its components
RECURSIVE Lookup(_, _, _)
Lookup(value, keys, default) ==
  IF keys = <<>> THEN value
  ELSE IF value.tag = "dict" /\ Head(keys) \in DOMAIN value.d
    THEN Lookup(value.d[Head(keys)], Tail(keys), default)
    ELSE default

\* lines 128-138
get_setting(key, default) == Lookup(settings, key, default)

\* the keys asked for
SettingKeys ==
  {<<"investigation", k>> : k \in InvestigationKeys} \cup {<<"monitoring", "check_interval">>}

\* ConfigManager.__init__, lines 8-12, before load_all_configs
ConfigNew ==
  /\ settings = Mapping(EmptyDict)
  /\ cfg_loaded = FALSE
  /\ last_setting = None

\* the ConfigManager of a framework in the repository as it is: no
\* config/settings.yaml
ConfigInit ==
  /\ settings_file = NoFile
  /\ settings = _load_settings(NoFile)
  /\ cfg_loaded = TRUE
  /\ last_setting = None

(* --------------------------- initial states ----------------------------- *)

\* a ConfigManager being built, on any config/settings.yaml
InitConfig ==
  /\ FrameworkInit
  /\ modules = BuiltinModules
  /\ PluginSystemInit
  /\ fs = [d \in PluginDirs |-> Absent]
  /\ ManagerInit
  /\ corr_input = EmptyDict
  /\ ext_input = NoResults
  /\ corr_calls = <<>>
  /\ ext_calls = <<>>
  /\ ext_given = ext_input
  /\ settings_file \in SettingsFiles
  /\ ConfigNew

\* no call of the two functions outside investigate yet
PureInit ==
  /\ corr_calls = <<>>
  /\ ext_calls = <<>>
  /\ ext_given = ext_input

\* the framework after construction, in the repository as it is: no plugin
\* directory exists
Init ==
  /\ FrameworkInit
  /\ modules = BuiltinModules
  /\ PluginSystemInit
  /\ fs = [d \in PluginDirs |-> Absent]
  /\ ManagerInit
  /\ corr_input = EmptyDict
  /\ ext_input = NoResults
  /\ PureInit
  /\ ConfigInit

\* the same, on any content of the plugin directories
InitPlugins ==
  /\ FrameworkInit
  /\ modules = BuiltinModules
  /\ PluginSystemInit
  /\ fs \in FileSystems
  /\ ManagerInit
  /\ corr_input = EmptyDict
  /\ ext_input = NoResults
  /\ PureInit
  /\ ConfigInit

\* the same, with a dict of collector outputs and a results dict at hand
InitPure ==
  /\ FrameworkInit
  /\ modules = BuiltinModules
  /\ PluginSystemInit
  /\ fs = [d \in PluginDirs |-> Absent]
  /\ ManagerInit
  /\ corr_input \in CorrelationInputs
  /\ ext_input \in ExtractionInputs
  /\ PureInit
  /\ ConfigInit

(* ------------------------------ helpers -------------------------------- *)

\* strftime('%Y%m%d_%H%M%S'): the time of the call cut to the second
FormatId(t) == t \div TicksPerSecond

\* lines 62-70; 'timestamp' and 'timeline' are written here and read by no
\* step of the pipeline, and are left out of the record
NewResults(id, tt, tv) ==
  [investigation_id |-> id,
   target |-> [type |-> tt, value |-> tv],
   modules |-> EmptyDict,
   correlations |-> EmptyDict,
   risk_assessment |-> EmptyDict]

\* an exception leaves investigate: the locals are gone, nothing is returned
Raise(i) ==
  /\ pc' = [pc EXCEPT ![i] = "raised"]
  /\ results' = [results EXCEPT ![i] = NoResults]

(* ------------------------------ actions -------------------------------- *)

\* the clock advances
Tick ==
  /\ now < MaxClock
  /\ now' = now + 1
  /\ UNCHANGED <<pc, target_type, target_value, depth, investigation_id, results,
                 identifiers, schedule, cross_results, tier1_calls, calls, failed, executed,
                 returned,
                 warnings, investigation_data>>
  /\ UNCHANGED otherVars

\* investigate is called: lines 59-70
Start(i, tt, d) ==
  /\ pc[i] = "idle"
  /\ IF i = 1 THEN TRUE ELSE pc[i - 1] # "idle"
  /\ target_type' = [target_type EXCEPT ![i] = tt]
  /\ target_value' = [target_value EXCEPT ![i] = TargetValueOf(tt)]
  /\ depth' = [depth EXCEPT ![i] = d]
  /\ investigation_id' = [investigation_id EXCEPT ![i] = FormatId(now)]
  /\ results' = [results EXCEPT ![i] = NewResults(FormatId(now), tt, TargetValueOf(tt))]
  /\ pc' = [pc EXCEPT ![i] = "tier1"]
  /\ UNCHANGED <<now, identifiers, schedule, cross_results, tier1_calls, calls, failed, executed,
                 returned, warnings, investigation_data>>
  /\ UNCHANGED otherVars

\* lines 73-75: the collector of the target type, when there is one
Tier1(i) ==
  /\ pc[i] = "tier1"
  /\ IF target_type[i] \in ModuleNames
       THEN /\ executed' = [executed EXCEPT ![i] = @ \cup {"tier1"}]
            /\ tier1_calls' = [tier1_calls EXCEPT ![i] = Append(@,
                  [module |-> target_type[i], value |-> target_value[i], depth |-> depth[i]])]
            /\ \E o \in CollectorOutcomes :
                 IF o = "ok"
                   THEN \E r \in CollectorResults(target_value[i]) :
                          /\ results' = [results EXCEPT ![i] =
                                Put(@, "modules", Put(@["modules"], target_type[i], r))]
                          /\ pc' = [pc EXCEPT ![i] = "tier2"]
                   ELSE Raise(i)
       ELSE /\ pc' = [pc EXCEPT ![i] = "tier2"]
            /\ UNCHANGED <<results, executed, tier1_calls>>
  /\ UNCHANGED <<now, target_type, target_value, depth, investigation_id,
                 identifiers, schedule, cross_results, calls, failed, returned,
                 warnings, investigation_data>>
  /\ UNCHANGED otherVars

\* line 78: if depth >= 2
Tier2Gate(d) == d >= 2

\* line 82: if depth >= 3
Tier3Gate(d) == d >= 3

\* lines 94-97: _cross_platform_search starts, with ids the extracted identifiers
CrossPlatformBegin(i, ids) ==
  /\ executed' = [executed EXCEPT ![i] = @ \cup {"tier2"}]
  /\ cross_results' = [cross_results EXCEPT ![i] = EmptyDict]
  /\ identifiers' = [identifiers EXCEPT ![i] = ids]
  /\ schedule' = [schedule EXCEPT ![i] = ScheduledCalls(ids, target_type[i])]
  /\ pc' = [pc EXCEPT ![i] = "fanout"]

\* lines 78-79 and 94-97
Tier2(i) ==
  /\ pc[i] = "tier2"
  /\ IF Tier2Gate(depth[i])
       THEN CrossPlatformBegin(i, _extract_identifiers(results[i]))
       ELSE /\ pc' = [pc EXCEPT ![i] = "tier3"]
            /\ UNCHANGED <<executed, cross_results, identifiers, schedule>>
  /\ UNCHANGED <<now, target_type, target_value, depth, investigation_id, results,
                 tier1_calls, calls, failed, returned, warnings, investigation_data>>
  /\ UNCHANGED otherVars

\* lines 99-107: one iteration of the innermost loop body
CrossPlatformCall(i) ==
  /\ pc[i] = "fanout"
  /\ Len(calls[i]) < Len(schedule[i])
  /\ LET c == schedule[i][Len(calls[i]) + 1] IN
       /\ calls' = [calls EXCEPT ![i] = Append(@, c)]
       /\ \/ /\ cross_results' = [cross_results EXCEPT ![i] =
                  Put(@, CrossKey(c.module, c.value), CrossResult(c.module, c.value))]
             /\ UNCHANGED <<pc, warnings, failed>>
          \/ /\ Cardinality(failed[i]) < MaxFailures
             /\ failed' = [failed EXCEPT ![i] = @ \cup {Len(calls[i]) + 1}]
             /\ warnings' = warnings \cup {c.module}
             /\ UNCHANGED <<pc, cross_results>>
          \* line 104: the await never completes; nothing bounds it (the
          \* 'request_timeout' of config_manager.py:90 is read nowhere), so
          \* the coroutine stays suspended in this call
          \/ /\ pc' = [pc EXCEPT ![i] = "hung"]
             /\ UNCHANGED <<cross_results, warnings, failed>>
  /\ UNCHANGED <<now, target_type, target_value, depth, investigation_id, results,
                 identifiers, schedule, tier1_calls, executed, returned,
                 investigation_data>>
  /\ UNCHANGED otherVars

\* the loops left at any iteration
LoopsLeftAnytime(made, planned) == TRUE

\* lines 99-102: the three for loops are exhausted
LoopsDone(made, planned) == Len(made) = Len(planned)

\* lines 109-110, after the loops
CrossPlatformFinish(i) ==
  /\ pc[i] = "fanout"
  /\ LoopsDone(calls[i], schedule[i])
  /\ results' = [results EXCEPT ![i] =
        Put(Put(@, "cross_platform", cross_results[i]),
            "correlations", _find_correlations(cross_results[i]))]
  /\ pc' = [pc EXCEPT ![i] = "tier3"]
  /\ UNCHANGED <<now, target_type, target_value, depth, investigation_id,
                 identifiers, schedule, cross_results, tier1_calls, calls, failed, executed,
                 returned,
                 warnings, investigation_data>>
  /\ UNCHANGED otherVars

\* lines 82-83: analyze_investigation
Analyze(i) ==
  /\ pc[i] = "tier3"
  /\ IF Tier3Gate(depth[i])
       THEN /\ executed' = [executed EXCEPT ![i] = @ \cup {"analyze"}]
            /\ \E o \in AnalyzeOutcomes :
                 IF o = "ok"
                   THEN /\ results' = [results EXCEPT ![i] = Put(@, "ai_analysis", "analysis")]
                        /\ pc' = [pc EXCEPT ![i] = "risk"]
                   ELSE Raise(i)
       ELSE /\ pc' = [pc EXCEPT ![i] = "finalize"]
            /\ UNCHANGED <<results, executed>>
  /\ UNCHANGED <<now, target_type, target_value, depth, investigation_id,
                 identifiers, schedule, cross_results, tier1_calls, calls, failed, returned,
                 warnings, investigation_data>>
  /\ UNCHANGED otherVars

\* line 84 and analyzer.py lines 54-65: risk_assessment divides by the
\* number of risk factors
RiskAssessment(i) ==
  /\ pc[i] = "risk"
  /\ executed' = [executed EXCEPT ![i] = @ \cup {"risk"}]
  /\ \E n \in RiskFactorCounts :
       IF n = 0
         THEN Raise(i)
         ELSE /\ results' = [results EXCEPT ![i] =
                   Put(@, "risk_assessment", [risk_factors |-> n])]
              /\ pc' = [pc EXCEPT ![i] = "finalize"]
  /\ UNCHANGED <<now, target_type, target_value, depth, investigation_id,
                 identifiers, schedule, cross_results, tier1_calls, calls, failed, returned,
                 warnings, investigation_data>>
  /\ UNCHANGED otherVars

\* lines 87-90: the graph, then the result is stored and returned
Finalize(i) ==
  /\ pc[i] = "finalize"
  /\ executed' = [executed EXCEPT ![i] = @ \cup {"visualize"}]
  /\ \E o \in VisualizerOutcomes :
       IF o = "ok"
         THEN LET final == Put(results[i], "visualization", "graph") IN
                /\ results' = [results EXCEPT ![i] = final]
                /\ investigation_data' = Put(investigation_data, investigation_id[i], final)
                /\ returned' = [returned EXCEPT ![i] = final]
                /\ pc' = [pc EXCEPT ![i] = "done"]
         ELSE /\ Raise(i)
              /\ UNCHANGED <<investigation_data, returned>>
  /\ UNCHANGED <<now, target_type, target_value, depth, investigation_id,
                 identifiers, schedule, cross_results, tier1_calls, calls, failed, warnings>>
  /\ UNCHANGED otherVars

(* --------------------------- specifications ---------------------------- *)

\* the framework as it is: the fan-out loops run on the output of
\* _extract_identifiers, which has no value, so no Tier-2 call is made
Next ==
  \/ Tick
  \/ \E i \in Inv, tt \in TargetTypes, d \in Depths : Start(i, tt, d)
  \/ \E i \in Inv : Tier1(i)
  \/ \E i \in Inv : Tier2(i)
  \/ \E i \in Inv : CrossPlatformFinish(i)
  \/ \E i \in Inv : Analyze(i)
  \/ \E i \in Inv : RiskAssessment(i)
  \/ \E i \in Inv : Finalize(i)

Spec == Init /\ [][Next]_vars

\* _cross_platform_search on every extraction output: lines 78-79 and 94-97
\* with the identifiers of line 97 drawn from ExtractionOutputs
Tier2Fanout(i) ==
  /\ pc[i] = "tier2"
  /\ IF Tier2Gate(depth[i])
       THEN \E ids \in ExtractionOutputs : CrossPlatformBegin(i, ids)
       ELSE /\ pc' = [pc EXCEPT ![i] = "tier3"]
            /\ UNCHANGED <<executed, cross_results, identifiers, schedule>>
  /\ UNCHANGED <<now, target_type, target_value, depth, investigation_id, results,
                 tier1_calls, calls, failed, returned, warnings, investigation_data>>
  /\ UNCHANGED otherVars

\* one investigation whose fan-out loops run on any extraction output; the
\* clock stands still
NextFanout ==
  \/ \E tt \in TargetTypes, d \in Depths : Start(1, tt, d)
  \/ Tier1(1)
  \/ Tier2Fanout(1)
  \/ CrossPlatformCall(1)
  \/ CrossPlatformFinish(1)
  \/ Analyze(1)
  \/ RiskAssessment(1)
  \/ Finalize(1)

SpecFanout == Init /\ [][NextFanout]_vars

\* cancellation is explored for the fan-outs of at most this many calls
MaxCancelSchedule == 8

\* what becomes of the CancelledError thrown into the await of line 104: the
\* except Exception of line 106 catches it where asyncio.CancelledError
\* derives from Exception (Python 3.7, the oldest interpreter with the
\* asyncio.run of line 235) and lets it through where it derives from
\* BaseException (Python 3.8 and later)
CancelOutcomes == {"caught", "propagates"}

\* Task.cancel() on the task running investigate, suspended in the collector
\* call of line 104
CancelInFanout(i) ==
  /\ pc[i] = "fanout"
  /\ Len(calls[i]) < Len(schedule[i])
  /\ Len(schedule[i]) <= MaxCancelSchedule
  /\ cancelled[i] = NotCancelled
  /\ LET c == schedule[i][Len(calls[i]) + 1] IN
       /\ calls' = [calls EXCEPT ![i] = Append(@, c)]
       /\ cancelled' = [cancelled EXCEPT ![i] = [calls |-> Len(calls[i]) + 1]]
       /\ \E o \in CancelOutcomes :
            IF o = "caught"
              \* lines 106-107: logged as a failed call, the loops go on
              THEN /\ failed' = [failed EXCEPT ![i] = @ \cup {Len(calls[i]) + 1}]
                   /\ warnings' = warnings \cup {c.module}
                   /\ UNCHANGED <<pc, results>>
              ELSE /\ Raise(i)
                   /\ UNCHANGED <<failed, warnings>>
  /\ UNCHANGED <<now, target_type, target_value, depth, investigation_id,
                 identifiers, schedule, cross_results, tier1_calls, executed, returned,
                 investigation_data, modules>>
  /\ UNCHANGED <<pluginVars, managerVars, pureVars, configVars>>

NextCancel ==
  \/ NextFanout
  \/ CancelInFanout(1)

\* one investigation, whose task can be cancelled during the fan-out
SpecCancel == Init /\ [][NextCancel]_vars

\* the same, with the event loop running the coroutine whenever it can run
SpecFanoutFair == SpecFanout /\ WF_vars(NextFanout)

(* --------------------- plugin system: the operations --------------------- *)

\* the exception goes up through load_plugins
OnExceptionPropagate(st) == [st EXCEPT !.raised = TRUE]

\* lines 49-50: except Exception logs the error; the loop goes on
OnException(st) == st

\* line 44: self.plugins[plugin_name] = plugin_instance
Register(st, name, instance) ==
  [st EXCEPT !.plugins = Put(@, name, instance),
             !.first_reg = IF name \in DOMAIN @ THEN @ ELSE Put(@, name, instance)]

\* lines 29-50: one iteration of the scan
LoadFile(f, kind, dir, serial, st) ==
  IF ~IsPluginFile(f) THEN st
  ELSE LET name == PluginName(f)
           \* line 38, before the file is executed
           entered == [st EXCEPT !.sys_modules = @ \cup {name}]
       IN IF ExecRaises(kind) THEN OnException(entered)
          ELSE IF ~HasPluginClass(kind) THEN entered
          ELSE IF CtorRaises(kind) THEN OnException(entered)
          ELSE Register(entered, name,
                        [name |-> name, dir |-> dir, kind |-> kind, serial |-> serial])

\* lines 28-50: the scan of a listing
RECURSIVE LoadFiles(_, _, _, _, _)
LoadFiles(listing, files, dir, serial, st) ==
  IF listing = <<>> \/ st.raised THEN st
  ELSE LoadFiles(Tail(listing), files, dir, serial,
                 LoadFile(Head(listing), files[Head(listing)], dir, serial, st))

\* plugins/__init__.py:29-30: except Exception prints; the loop goes on
OnPackageException(loaded) == loaded

\* plugins/__init__.py:17-30: the scan of the package-level load_plugins,
\* which keeps every module whose file was executed
RECURSIVE PackageLoadPlugins(_, _, _)
PackageLoadPlugins(listing, files, loaded) ==
  IF listing = <<>> THEN loaded
  ELSE LET f == Head(listing) IN
         PackageLoadPlugins(Tail(listing), files,
           IF ~IsPluginFile(f) THEN loaded
           ELSE IF ExecRaises(files[f]) THEN OnPackageException(loaded)
           ELSE Append(loaded, PluginName(f)))

\* the registry left as it is
Kept(d) == d

\* line 90: self.plugins.clear()
Cleared(d) == EmptyDict

\* a call without a directory scans the default directory
ScanDirDefault(plugin_dir, current) ==
  IF plugin_dir # NoDir THEN plugin_dir ELSE DefaultPluginsDir

\* lines 18-19: the directory given, or else the one self.plugins_dir holds
ScanDir(plugin_dir, current) ==
  IF plugin_dir # NoDir THEN plugin_dir ELSE current

\* lines 16-53: load_plugins(plugin_dir) on the registry 'registry'
LoadInto(plugin_dir, registry, firsts) ==
  LET dir == ScanDir(plugin_dir, plugins_dir) IN
    /\ plugins_dir' = dir
    /\ IF ~fs[dir].exists
         THEN /\ fs' = [fs EXCEPT ![dir] = Present(EmptyDict)]
              /\ plugins' = registry
              /\ first_reg' = firsts
              /\ last_scanned' = <<>>
              /\ UNCHANGED sys_modules
         ELSE /\ \E listing \in Listings(fs[dir].files) :
                   LET st == LoadFiles(listing, fs[dir].files, dir, loads + 1,
                                       [plugins |-> registry, sys_modules |-> sys_modules,
                                        first_reg |-> firsts, raised |-> FALSE])
                   IN /\ plugins' = st.plugins
                      /\ sys_modules' = st.sys_modules
                      /\ first_reg' = st.first_reg
                      /\ last_scanned' = SelectSeq(listing, IsPluginFile)
              /\ UNCHANGED fs

\* lines 16-53
LoadPlugins(plugin_dir) ==
  /\ loads < MaxLoads
  /\ LoadInto(plugin_dir, plugins, first_reg)
  /\ loads' = loads + 1
  /\ last_op' = "load"
  /\ plugins_before' = plugins
  /\ load_dir' = IF plugin_dir # NoDir THEN plugin_dir ELSE load_dir
  /\ UNCHANGED <<frameworkVars, managerVars, pureVars, configVars>>

\* lines 88-91
ReloadPlugins ==
  /\ loads < MaxLoads
  /\ LoadInto(NoDir, Cleared(plugins), EmptyDict)
  /\ loads' = loads + 1
  /\ last_op' = "reload"
  /\ plugins_before' = plugins
  /\ UNCHANGED load_dir
  /\ UNCHANGED <<frameworkVars, managerVars, pureVars, configVars>>

NextPlugins ==
  \/ \E d \in PluginDirs \cup {NoDir} : LoadPlugins(d)
  \/ ReloadPlugins

\* the plugin system of one framework, on any content of the directories
SpecPlugins == InitPlugins /\ [][NextPlugins]_vars

\* between two operations, the file of a registered plugin is deleted from
\* the directory that line 28 lists
RemoveFile(f) ==
  /\ last_op \in {"load", "reload"}
  /\ f \in DOMAIN fs[plugins_dir].files
  /\ IsPluginFile(f)
  /\ PluginName(f) \in DOMAIN plugins
  /\ fs' = [fs EXCEPT ![plugins_dir] =
              Present([g \in DOMAIN fs[plugins_dir].files \ {f} |-> fs[plugins_dir].files[g]])]
  /\ last_op' = "remove"
  /\ UNCHANGED <<plugins, plugins_dir, sys_modules, loads, first_reg, plugins_before,
                 last_scanned, load_dir>>
  /\ UNCHANGED <<frameworkVars, managerVars, pureVars, configVars>>

NextReload ==
  \/ NextPlugins
  \/ \E f \in PluginFileNames : RemoveFile(f)

\* the plugin system on directories that lose files between its operations
SpecReload == InitPlugins /\ [][NextReload]_vars

(* --------------------- module manager: the operations -------------------- *)

\* the number of failed initializations so far, over all managers
BadModules ==
  LET bad(m) == {n \in 1..Len(mgr_outcomes[m]) : mgr_outcomes[m][n] # "ok"}
      RECURSIVE Sum(_)
      Sum(k) == IF k = 0 THEN 0 ELSE Cardinality(bad(k)) + Sum(k - 1)
  IN Sum(MaxManagers)

\* lines 53-63: ModuleManager(), built one after the other
NewManager(m) ==
  /\ mgr_pc[m] = "none"
  /\ \A k \in Managers : k < m => mgr_pc[k] \in {"ready", "raised"}
  /\ mgr_pc' = [mgr_pc EXCEPT ![m] = "init"]
  /\ mgr_modules' = [mgr_modules EXCEPT ![m] = EmptyDict]
  /\ UNCHANGED <<availability, mgr_outcomes>>
  /\ UNCHANGED <<frameworkVars, pluginVars, pureVars, configVars>>

\* lines 98-130: _try_initialize_module on the next entry of the list
TryInitializeModule(m) ==
  /\ mgr_pc[m] = "init"
  /\ Len(mgr_outcomes[m]) < Len(modules_to_init)
  /\ LET e == modules_to_init[Len(mgr_outcomes[m]) + 1]
         module_key == ModuleKey(e.path)
     IN \E o \in InitOutcomes :
          /\ o # "ok" => BadModules < MaxBadModules
          /\ mgr_outcomes' = [mgr_outcomes EXCEPT ![m] = Append(@, o)]
          /\ IF o = "ok"
               \* lines 117-118
               THEN /\ mgr_modules' = [mgr_modules EXCEPT ![m] =
                          Put(@, module_key, [class |-> e.class, manager |-> m])]
                    /\ availability' = Put(availability, module_key, TRUE)
                    /\ UNCHANGED mgr_pc
               ELSE IF KeyBound(o)
               \* lines 128-130
               THEN /\ availability' = Put(availability, module_key, FALSE)
                    /\ UNCHANGED <<mgr_modules, mgr_pc>>
               \* lines 122-127: module_key is read before it is bound; the
               \* UnboundLocalError leaves the handler, the loop and __init__
               ELSE /\ mgr_pc' = [mgr_pc EXCEPT ![m] = "raised"]
                    /\ UNCHANGED <<mgr_modules, availability>>
  /\ UNCHANGED <<frameworkVars, pluginVars, pureVars, configVars>>

\* line 96: the loop is over, __init__ returns
ManagerReady(m) ==
  /\ mgr_pc[m] = "init"
  /\ Len(mgr_outcomes[m]) = Len(modules_to_init)
  /\ mgr_pc' = [mgr_pc EXCEPT ![m] = "ready"]
  /\ UNCHANGED <<availability, mgr_modules, mgr_outcomes>>
  /\ UNCHANGED <<frameworkVars, pluginVars, pureVars, configVars>>

\* lines 144-151: list(self.modules.keys())
list_available_modules(m) == DOMAIN mgr_modules[m]

\* lines 153-163: module_name in self.modules
is_module_available(m, module_name) == module_name \in DOMAIN mgr_modules[m]

\* lines 165-172: _MODULE_AVAILABILITY.copy()
get_module_status == availability

NextManager ==
  \E m \in Managers : NewManager(m) \/ TryInitializeModule(m) \/ ManagerReady(m)

\* the module managers of one process
SpecManager == Init /\ [][NextManager]_vars

(* ------------- the two functions called on their own: main.py ----------- *)

\* lines 126-130, on the items of corr_input in some insertion order
FindCorrelations ==
  /\ Len(corr_calls) < MaxPureCalls
  /\ \E order \in KeyOrders(corr_input) :
       corr_calls' = Append(corr_calls,
         [order |-> order, out |-> _find_correlations(Items(corr_input, order))])
  /\ UNCHANGED <<corr_input, ext_given, ext_input, ext_calls>>
  /\ UNCHANGED <<frameworkVars, pluginVars, managerVars, configVars>>

\* lines 112-124: the function reads nothing and writes nothing of results
ExtractIdentifiers ==
  /\ Len(ext_calls) < MaxPureCalls
  /\ ext_calls' = Append(ext_calls, _extract_identifiers(ext_input))
  /\ UNCHANGED <<corr_input, corr_calls, ext_given, ext_input>>
  /\ UNCHANGED <<frameworkVars, pluginVars, managerVars, configVars>>

NextPure == FindCorrelations \/ ExtractIdentifiers

\* the two functions on any input
SpecPure == InitPure /\ [][NextPure]_vars

(* ----------------------- configuration: the operations ------------------ *)

\* lines 15-19, of which the settings
LoadAllConfigs ==
  /\ ~cfg_loaded
  /\ settings' = _load_settings(settings_file)
  /\ cfg_loaded' = TRUE
  /\ UNCHANGED <<settings_file, last_setting>>
  /\ UNCHANGED <<frameworkVars, pluginVars, managerVars, pureVars>>

\* lines 128-138
GetSetting(key) ==
  /\ cfg_loaded
  /\ last_setting' = [key |-> key, value |-> get_setting(key, None)]
  /\ UNCHANGED <<settings_file, settings, cfg_loaded>>
  /\ UNCHANGED <<frameworkVars, pluginVars, managerVars, pureVars>>

NextConfig ==
  \/ LoadAllConfigs
  \/ \E key \in SettingKeys : GetSetting(key)

\* a ConfigManager on any settings.yaml
SpecConfig == InitConfig /\ [][NextConfig]_vars

(* ------------------------------ claims --------------------------------- *)

KindNames == {KindOrder[n] : n \in 1..Len(KindOrder)}

\* the call has ended, by a return or by an exception
Ended(i) == pc[i] \in {"done", "raised"}

\* the step whose exception ended the call
RaisedIn(i) ==
  IF pc[i] # "raised" THEN "none"
  ELSE IF "visualize" \in executed[i] THEN "visualize"
  ELSE IF "risk" \in executed[i] THEN "risk"
  ELSE IF "analyze" \in executed[i] THEN "analyze"
  ELSE "tier1"

\* _cross_platform_search has begun and the call has not raised since
InTier2OrLater(i) ==
  /\ "tier2" \in executed[i]
  /\ pc[i] \in {"fanout", "tier3", "risk", "finalize", "done"}

\* _cross_platform_search has returned and the call has not raised since
FanoutDone(i) == "cross_platform" \in DOMAIN results[i]

\* the values of the Tier-2 calls made for identifier kind k
CalledValues(i, k) ==
  {calls[i][n].value : n \in {m \in 1..Len(calls[i]) : calls[i][m].kind = k}}

\* C1: every call of investigate that has ended has executed Tier 2
\* (_cross_platform_search) if and only if depth >= 2, and Tier 3
\* (analyze_investigation and risk_assessment) if and only if depth >= 3.
InvC1 ==
  \A i \in Inv :
    Ended(i) =>
      /\ ("tier2" \in executed[i]) <=> (depth[i] >= 2)
      /\ ({"analyze", "risk"} \subseteq executed[i]) <=> (depth[i] >= 3)

\* C2: a failure of the Tier-1 collector never aborts the investigation: no
\* call of investigate ends by the exception of its Tier-1 collector (the
\* failure is recorded under the collector's name and the pipeline goes on).
InvC2 ==
  \A i \in Inv : "tier1" \in executed[i] => RaisedIn(i) # "tier1"

\* C3: an investigation that ended without a failure of the enrichment or
\* of the visualizer returned a result and stored it under its id, and in
\* the returned result the target kind has an entry in 'modules' exactly
\* when a collector was attempted for it.
InvC3 ==
  \A i \in Inv :
    (Ended(i) /\ RaisedIn(i) \notin {"analyze", "risk", "visualize"}) =>
      /\ returned[i] # NoResults
      /\ investigation_id[i] \in DOMAIN investigation_data
      /\ (target_type[i] \in DOMAIN returned[i].modules) <=> ("tier1" \in executed[i])

InvC5 ==
  \A i \in Inv :
    (depth[i] = 3 /\ pc[i] = "raised") => RaisedIn(i) \notin {"analyze", "risk"}

\* C6: two investigations of the same framework never have the same
\* investigation id, and the result stored for an investigation that has
\* returned is the one it returned.
InvC6 ==
  /\ \A i, j \in Inv :
       (i # j /\ pc[i] # "idle" /\ pc[j] # "idle") => investigation_id[i] # investigation_id[j]
  /\ \A i \in Inv :
       pc[i] = "done" => investigation_data[investigation_id[i]] = returned[i]

\* C7: at depth >= 2 every identifier in the Tier-1 result is among the
\* extracted identifiers of its kind and, once the fan-out has finished, a
\* Tier-2 call has been made with its value.
InvC7 ==
  \A i \in Inv :
    (InTier2OrLater(i) /\ target_type[i] \in DOMAIN results[i].modules) =>
      \A id \in results[i].modules[target_type[i]].found :
        /\ \E n \in 1..Len(identifiers[i][id[1]]) : identifiers[i][id[1]][n] = id[2]
        /\ FanoutDone(i) => \E n \in 1..Len(calls[i]) : calls[i][n].value = id[2]

\* C8: for every identifier kind the Tier-2 calls made for that kind carry
\* at most 5 distinct values, however many values the extraction returned.
ThmC8 ==
  \A i \in Inv : \A k \in KindNames : Cardinality(CalledValues(i, k)) <= 5

\* a fan-out has finished on a kind with more than 5 extracted values, and
\* calls were made for 5 of them
WitC8 ==
  \E i \in Inv : \E k \in KindNames :
    /\ FanoutDone(i)
    /\ Len(identifiers[i][k]) > 5
    /\ Cardinality(CalledValues(i, k)) = 5

InvC10 ==
  \A i \in Inv :
    (InTier2OrLater(i) /\ target_type[i] \notin ModuleNames) =>
      /\ results[i].modules = EmptyDict
      /\ \E k \in KindNames : \E n \in 1..Len(identifiers[i][k]) :
           identifiers[i][k][n] = target_value[i]
      /\ FanoutDone(i) =>
           \A mod \in ModuleNames : \E n \in 1..Len(calls[i]) :
             calls[i][n].module = mod /\ calls[i][n].value = target_value[i]

\* C11: a depth-1 call whose target type has a registered collector, once
\* ended, has made exactly one Tier-1 call, to that collector, and no
\* Tier-2 call, and has returned a result whose 'modules' has exactly one
\* entry, keyed by the target type, and which has no cross-platform result.
InvC11 ==
  \A i \in Inv :
    (Ended(i) /\ depth[i] = 1 /\ target_type[i] \in ModuleNames) =>
      /\ Len(tier1_calls[i]) = 1
      /\ tier1_calls[i][1].module = target_type[i]
      /\ calls[i] = <<>>
      /\ returned[i] # NoResults
      /\ DOMAIN returned[i].modules = {target_type[i]}
      /\ "cross_platform" \notin DOMAIN returned[i]

InvC13 ==
  \A name \in DOMAIN plugins : plugins[name] = first_reg[name]

\* C14: building a ModuleManager never raises; every module whose import,
\* class lookup or construction failed is left out of the manager's modules
\* and, until a later manager initializes it, is recorded as unavailable;
\* and a manager in __init__ goes on to the remaining modules.
InvC14 ==
  \A m \in Managers :
    /\ mgr_pc[m] # "raised"
    /\ \A n \in 1..Len(mgr_outcomes[m]) :
         LET key == ModuleKey(modules_to_init[n].path) IN
           mgr_outcomes[m][n] # "ok" =>
             /\ key \notin DOMAIN mgr_modules[m]
             /\ (\A k \in Managers : k > m => mgr_pc[k] = "none") =>
                  (key \in DOMAIN availability /\ ~availability[key])

\* the plugin files of the directory the last operation scanned
ScannedFiles == {f \in DOMAIN fs[plugins_dir].files : IsPluginFile(f)}

\* the file has a Plugin class whose constructor returns
Loadable(kind) == HasPluginClass(kind) /\ ~CtorRaises(kind)

\* C15: after load_plugins or reload_plugins has scanned a directory, in
\* whatever order, every plugin file of it has been entered in sys.modules
\* and every one that has a Plugin class whose constructor returns is
\* registered with the instance built by this scan, whichever other files of
\* the directory failed; and the package-level load_plugins returns, for
\* every listing of a directory, every module whose file executes.
ThmC15 ==
  /\ last_op # "none" =>
       \A f \in ScannedFiles :
         /\ PluginName(f) \in sys_modules
         /\ Loadable(fs[plugins_dir].files[f]) =>
              /\ PluginName(f) \in DOMAIN plugins
              /\ plugins[PluginName(f)].serial = loads
              /\ plugins[PluginName(f)].dir = plugins_dir
  /\ \A d \in PluginDirs : \A listing \in Listings(fs[d].files) :
       LET loaded == PackageLoadPlugins(listing, fs[d].files, <<>>) IN
         \A f \in DOMAIN fs[d].files :
           (IsPluginFile(f) /\ ~ExecRaises(fs[d].files[f])) =>
             \E n \in 1..Len(loaded) : loaded[n] = PluginName(f)

\* a scan listed a file that fails before a file that loads, and the second
\* is registered
WitC15 ==
  /\ last_op # "none"
  /\ \E a, b \in 1..Len(last_scanned) :
       LET fa == last_scanned[a]
           fb == last_scanned[b]
       IN /\ a < b
          /\ IsPluginFile(fa) /\ IsPluginFile(fb)
          /\ ~Loadable(fs[plugins_dir].files[fa])
          /\ Loadable(fs[plugins_dir].files[fb])
          /\ PluginName(fb) \in DOMAIN plugins
          /\ plugins[PluginName(fb)].serial = loads

\* C16: every instance in the plugin registry comes from a file whose
\* Plugin class has investigate and get_capabilities, is constructed without
\* an exception and implements the capabilities it declares.
InvC16 ==
  \A name \in DOMAIN plugins : SatisfiesContract(plugins[name].kind)

\* C17: after reload_plugins every instance in the plugin registry was built
\* by that reload, so that no entry registered before it is left, and the
\* framework's built-in module map is what _load_modules built, whatever
\* the plugin system has done.
ThmC17 ==
  /\ last_op = "reload" =>
       /\ \A name \in DOMAIN plugins : plugins[name].serial = loads
       /\ \A name \in DOMAIN plugins_before :
            name \in DOMAIN plugins => plugins[name] # plugins_before[name]
  /\ modules = BuiltinModules

\* a reload has dropped a name that was registered before it and has
\* registered another name anew
WitC17 ==
  /\ last_op = "reload"
  /\ \E name \in DOMAIN plugins_before : name \notin DOMAIN plugins
  /\ \E name \in DOMAIN plugins_before :
       name \in DOMAIN plugins /\ plugins[name].serial = loads
  /\ modules = BuiltinModules

\* C18: all the calls of _find_correlations on one dict of collector
\* outputs return the same correlations, whatever the order of the dict's
\* entries at each call.
ThmC18 ==
  \A a, b \in 1..Len(corr_calls) : corr_calls[a].out = corr_calls[b].out

\* two calls on a dict of two entries, taken in the two orders
WitC18 ==
  \E a, b \in 1..Len(corr_calls) :
    /\ Len(corr_calls[a].order) = 2
    /\ corr_calls[a].order # corr_calls[b].order
    /\ corr_calls[a].out = corr_calls[b].out

\* C19: the correlations returned for a dict of collector outputs have, for
\* any two distinct identifiers found in one output, an entry for the pair,
\* whose weight is the number of outputs in which both were found.
InvC19 ==
  \A n \in 1..Len(corr_calls) :
    \A k \in DOMAIN corr_input : \A a, b \in corr_input[k].found :
      (a # b) =>
        \E edge \in DOMAIN corr_calls[n].out :
          /\ edge = {a, b}
          /\ corr_calls[n].out[edge] =
               Cardinality({j \in DOMAIN corr_input : {a, b} \subseteq corr_input[j].found})

\* C20: _extract_identifiers leaves the results it was given as they were,
\* and in its output no value occurs twice under a kind and every identifier
\* found by a module of the results occurs once, with the modules that found
\* it as its provenance.
InvC20 ==
  /\ ext_input = ext_given
  /\ \A n \in 1..Len(ext_calls) :
       LET out == ext_calls[n] IN
         /\ \A k \in DOMAIN out : \A p, q \in 1..Len(out[k]) :
              (p # q) => out[k][p].value # out[k][q].value
         /\ \A m \in DOMAIN ext_input.modules : \A id \in ext_input.modules[m].found :
              \E p \in 1..Len(out[id[1]]) :
                /\ out[id[1]][p].value = id[2]
                /\ out[id[1]][p].provenance =
                     {j \in DOMAIN ext_input.modules : id \in ext_input.modules[j].found}

\* the place of a position of investigate in the order Created, Tier 1,
\* Tier 2, Tier 3, finalizing, ended
Rank(p) ==
  CASE p = "idle" -> 0
    [] p = "tier1" -> 1
    [] p \in {"tier2", "fanout", "hung"} -> 2
    [] p \in {"tier3", "risk"} -> 3
    [] p = "finalize" -> 4
    [] p \in {"done", "raised"} -> 5

\* what the order of the tiers means in a state
OrderC21(i) ==
  /\ calls[i] # <<>> =>
       /\ Rank(pc[i]) >= 2
       /\ Tier2Gate(depth[i])
       /\ target_type[i] \in ModuleNames => Len(tier1_calls[i]) = 1
  /\ ({"analyze", "risk"} \cap executed[i] # {} \/ pc[i] \in {"tier3", "risk", "finalize", "done"}) =>
       IF Tier2Gate(depth[i])
         THEN "tier2" \in executed[i] /\ calls[i] = schedule[i]
         ELSE "tier2" \notin executed[i] /\ calls[i] = <<>>
  /\ {"analyze", "risk"} \cap executed[i] # {} => Tier3Gate(depth[i])
  /\ (pc[i] = "done" \/ investigation_data # EmptyDict) =>
       /\ pc[i] = "done"
       /\ "visualize" \in executed[i]
       /\ Tier3Gate(depth[i]) => {"analyze", "risk"} \subseteq executed[i]

\* C21: the investigation never steps back in the order Created, Tier 1,
\* Tier 2, Tier 3, finalizing, ended; a Tier-2 call is made only after the
\* Tier-1 call, a Tier-3 step only after all the scheduled Tier-2 calls,
\* and the result is stored only after every tier that runs at the call's
\* depth has run.
ThmC21 ==
  /\ [](OrderC21(1))
  /\ [][Rank(pc'[1]) >= Rank(pc[1])]_vars

\* a depth-3 investigation that made Tier-2 calls has gone through the three
\* tiers and is stored
WitC21 ==
  /\ pc[1] = "done"
  /\ depth[1] = 3
  /\ Len(calls[1]) >= 2
  /\ {"tier1", "tier2", "analyze", "risk", "visualize"} \subseteq executed[1]
  /\ investigation_id[1] \in DOMAIN investigation_data

InvC23 ==
  \A m \in Managers :
    mgr_pc[m] = "ready" =>
      /\ list_available_modules(m) =
           {ModuleKey(modules_to_init[n].path) :
              n \in {k \in 1..Len(mgr_outcomes[m]) : mgr_outcomes[m][k] = "ok"}}
      /\ \A n \in 1..Len(mgr_outcomes[m]) :
           ModuleKey(modules_to_init[n].path) \in DOMAIN get_module_status
      /\ \A name \in DOMAIN get_module_status :
           is_module_available(m, name) = get_module_status[name]

\* the Tier-2 collector calls of a call that have been made and have not
\* returned: the await of line 104 is the only one of the loops
InFlight(i) == IF pc[i] = "hung" THEN 1 ELSE 0

InvC25 ==
  loads = 1 =>
    \A f \in ScannedFiles :
      ~Loadable(fs[plugins_dir].files[f]) =>
        /\ PluginName(f) \notin DOMAIN plugins
        /\ PluginName(f) \notin sys_modules

\* C26: the result stored under an investigation id is written once: no
\* step changes the result stored under an id that already has one.
StoreC26 ==
  [][\A id \in DOMAIN investigation_data :
       investigation_data'[id] = investigation_data[id]]_vars

FileValue(k) ==
  IF /\ settings_file.tag = "dict"
     /\ "investigation" \in DOMAIN settings_file.d
     /\ settings_file.d["investigation"].tag = "dict"
     /\ k \in DOMAIN settings_file.d["investigation"].d
    THEN settings_file.d["investigation"].d[k]
    ELSE None

\* C28: once the configuration is loaded, get_setting returns for
\* 'investigation.max_concurrent_requests' and 'investigation.request_timeout'
\* the value settings.yaml gives the key and, when it gives none, the
\* defaults 10 and 30.
InvC28 ==
  cfg_loaded =>
    \A k \in {"max_concurrent_requests", "request_timeout"} :
      get_setting(<<"investigation", k>>, None) =
        IF FileValue(k) # None THEN FileValue(k)
        ELSE DefaultSettings.d["investigation"].d[k]

\* the Tier-2 calls of an investigation that returned a result
Successful(i) ==
  {n \in 1..Len(calls[i]) : n \notin failed[i] /\ ~(pc[i] = "hung" /\ n = Len(calls[i]))}

LoadableNames(dir) ==
  {PluginName(f) : f \in {g \in DOMAIN fs[dir].files :
                            IsPluginFile(g) /\ Loadable(fs[dir].files[g])}}

\* C30: after reload_plugins the registered plugins are exactly the files
\* that load from the directory of the most recent load_plugins call, each
\* with an instance of that directory, so that no entry of another directory
\* or of a file since removed is left; and a reload right after a reload
\* registers the same names.
ThmC30 ==
  /\ [](last_op = "reload" =>
          /\ DOMAIN plugins = LoadableNames(load_dir)
          /\ \A name \in DOMAIN plugins : plugins[name].dir = load_dir)
  /\ [][(last_op = "reload" /\ last_op' = "reload" /\ loads' # loads) =>
          DOMAIN plugins' = DOMAIN plugins]_vars

\* a reload has dropped an entry of another directory and an entry of the
\* scanned directory whose file was removed after it was loaded
WitC30 ==
  /\ last_op = "reload"
  /\ \E name \in DOMAIN plugins_before : plugins_before[name].dir # load_dir
  /\ \E name \in DOMAIN plugins_before :
       /\ plugins_before[name].dir = load_dir
       /\ name \notin LoadableNames(load_dir)
       /\ name \notin DOMAIN plugins

====
